---- MODULE Spec2Model ----
\* Verification model of fast_base_convert: the reference long-division
\* converter (src/src/baseline.rs), the strategy-selecting converter
\* (src/src/optimized.rs), the alias in src/src/lib.rs, and a driver that
\* applies each entry point to one argument triple.
EXTENDS Integers, Sequences, FiniteSets, TLC

VARIABLES digits, from_base, to_base, baseline_out, optimized_out, auto_out,
          round_trip_out, strategy, cache,
          inner_fn, inner_out, arg_a, arg_b,
          callers, lock, queried, computations,
          loop

\* The state of a direct call of one of the converter's private functions:
\* which function, the exponents passed to it and its outcome.
inner_vars == <<inner_fn, inner_out, arg_a, arg_b>>

\* The state of concurrent callers of get_factorization: each caller's
\* position, the holder of the mutex, and two records of what has happened
\* (the bases passed in, and how often each base's factorization was computed).
caller_vars == <<callers, lock, queried, computations>>

\* `loop` is the state of a division loop between two passes: the current
\* sequence, the result so far and the number of passes made.

\* The state of the calls made on one argument triple.
conversion_vars == <<digits, from_base, to_base, baseline_out, optimized_out,
                     auto_out, round_trip_out, strategy, inner_fn, inner_out,
                     arg_a, arg_b, loop>>

vars == <<digits, from_base, to_base, baseline_out, optimized_out, auto_out,
          round_trip_out, strategy, cache, inner_vars, caller_vars, loop>>

-----------------------------------------------------------------------------
\* Bounds of the explored inputs.

\* Longest digit pattern drawn for an input.
MaxPatLen == 2

\* Largest number of repetitions of the pattern (inputs of MaxPatLen * MaxReps
\* digits exceed the 20-digit cap of the small-value path).
MaxReps == 11

\* The bases the driver draws from: both sides of each limit of [2, 65536],
\* powers of two, the table pair 3/27 and a base with other prime factors.
SampleBases == {1, 2, 3, 10, 16, 27, 65536, 65537}

\* The bases whose inputs are also drawn repeated MaxReps times.
LongInputBases == {2, 3, 10, 16, 27}

\* Digits drawn for a from_base: the extremes of the valid range and the first
\* invalid digit.
DigitChoices(b) == {0, 1, b - 1, b}

RECURSIVE Repeat(_, _)
Repeat(p, r) == IF r = 0 THEN <<>> ELSE p \o Repeat(p, r - 1)

Patterns(b) == UNION {[1..n -> DigitChoices(b)] : n \in 0..MaxPatLen}

Inputs(b) ==
    {Repeat(p, r) : p \in Patterns(b),
                    r \in IF b \in LongInputBases THEN {1, MaxReps} ELSE {1}}

-----------------------------------------------------------------------------
\* Outcomes of a call: a returned vector, a panic, or no return at all
\* (kind "Diverges": a loop that never exits).

Ok(v) == [kind |-> "Ok", val |-> v]
Panic(k) == [kind |-> k, val |-> <<>>]
NotCalled == [kind |-> "NotCalled", val |-> <<>>]

\* `let x = v; Op(x)`: v is evaluated once and Op reads the value.
Strict(v, Op(_)) == CHOOSE r \in {Op(x) : x \in {v}} : TRUE

\* A `while cond { body }` loop (a `for` loop carries its index in the state).
\* RunAtMost runs at most n iterations, splitting n in halves so that the
\* evaluation depth stays logarithmic in the iteration count; WhileFrom doubles
\* n until the condition is false.
RECURSIVE RunAtMost(_, _, _, _)
RunAtMost(Cond(_), Body(_), st, n) ==
    IF ~Cond(st) THEN st
    ELSE IF n = 1 THEN Body(st)
    ELSE Strict(RunAtMost(Cond, Body, st, n \div 2),
                LAMBDA half : RunAtMost(Cond, Body, half, n - n \div 2))

RECURSIVE WhileFrom(_, _, _, _)
WhileFrom(Cond(_), Body(_), st, n) ==
    Strict(RunAtMost(Cond, Body, st, n),
           LAMBDA after : IF Cond(after) THEN WhileFrom(Cond, Body, after, 2 * n)
                          ELSE after)

While(Cond(_), Body(_), st) == Strict(st, LAMBDA init : WhileFrom(Cond, Body, init, 1))

MIN_BASE == 2
MAX_BASE == 65536

\* A variant of the range check that rejects the largest base.
base_out_of_range_exclusive(base) == base < MIN_BASE \/ base >= MAX_BASE

\* `base < 2 || base > 65536`, the test both entry points apply to each base.
base_out_of_range(base) == base < MIN_BASE \/ base > MAX_BASE

Reverse(s) == Strict(s, LAMBDA v : [i \in 1..Len(v) |-> v[Len(v) + 1 - i]])
DropLast(s) == SubSeq(s, 1, Len(s) - 1)
Min(x, y) == IF x < y THEN x ELSE y

\* `while result.len() > 1 && result.last() == Some(&0) { result.pop(); }`
pop_trailing_zeros(result) ==
    While(LAMBDA r : Len(r) > 1 /\ r[Len(r)] = 0, DropLast, result)

is_zero_or_empty(d) == d = <<>> \/ (Len(d) = 1 /\ d[1] = 0)

has_invalid_digit(d, base) == \E i \in 1..Len(d) : d[i] >= base

-----------------------------------------------------------------------------
\* Unbounded naturals for the 128-bit accumulators and the tests' BigUint:
\* little-endian limbs of radix 256, no most-significant zero limb, <<>> = 0.

LimbRadix == 256

BigNorm(x) == While(LAMBDA y : y /= <<>> /\ y[Len(y)] = 0, DropLast, x)

RECURSIVE BigFromInt(_)
BigFromInt(n) ==
    IF n = 0 THEN <<>> ELSE <<n % LimbRadix>> \o BigFromInt(n \div LimbRadix)

\* One limb of a carry-propagating pass: s is [i, c, out], t the limb's total.
LimbStep(s, t) ==
    [i |-> s.i + 1, c |-> t \div LimbRadix, out |-> Append(s.out, t % LimbRadix)]

\* x * m + c for small m, c.
BigMulAdd(x, m, c) ==
    Strict(x, LAMBDA xv :
      Strict(While(LAMBDA s : s.i <= Len(xv),
                   LAMBDA s : LimbStep(s, xv[s.i] * m + s.c),
                   [i |-> 1, c |-> c, out |-> <<>>]),
             LAMBDA st : BigNorm(st.out \o BigFromInt(st.c))))

BigMulSmall(x, m) == BigMulAdd(x, m, 0)
BigAddSmall(x, d) == BigMulAdd(x, 1, d)

\* One limb of the long division by a small m: s is [i, r, q], t = r * radix
\* + limb.
DivLimbStep(s, t, m) == [i |-> s.i - 1, r |-> t % m, q |-> Append(s.q, t \div m)]

\* Long division of the limbs by a small m, most-significant limb first:
\* [q |-> quotient, r |-> remainder].
BigDivMod(x, m) ==
    Strict(x, LAMBDA xv :
      Strict(While(LAMBDA s : s.i >= 1,
                   LAMBDA s : DivLimbStep(s, s.r * LimbRadix + xv[s.i], m),
                   [i |-> Len(xv), r |-> 0, q |-> <<>>]),
             LAMBDA st : [q |-> BigNorm(Reverse(st.q)), r |-> st.r]))

BigGT(x, y) ==
    Strict(<<x, y>>, LAMBDA p :
      IF Len(p[1]) /= Len(p[2]) THEN Len(p[1]) > Len(p[2])
      ELSE \E i \in 1..Len(p[1]) :
              /\ p[1][i] > p[2][i]
              /\ \A j \in (i + 1)..Len(p[1]) : p[1][j] = p[2][j])

\* x + y and x - y (x >= y), limb by limb with carry / borrow.
LimbAt(x, i) == IF i <= Len(x) THEN x[i] ELSE 0

BigAdd(x, y) ==
    Strict(<<x, y>>, LAMBDA p :
      Strict(While(LAMBDA s : s.i <= Len(p[1]) \/ s.i <= Len(p[2]),
                   LAMBDA s : LimbStep(s, LimbAt(p[1], s.i) + LimbAt(p[2], s.i) + s.c),
                   [i |-> 1, c |-> 0, out |-> <<>>]),
             LAMBDA st : BigNorm(st.out \o BigFromInt(st.c))))

\* One limb of the subtraction: t = x[i] - y[i] - borrow.
SubLimbStep(s, t) ==
    [i |-> s.i + 1, c |-> IF t < 0 THEN 1 ELSE 0,
     out |-> Append(s.out, IF t < 0 THEN t + LimbRadix ELSE t)]

BigSub(x, y) ==
    Strict(<<x, y>>, LAMBDA p :
      BigNorm(While(LAMBDA s : s.i <= Len(p[1]),
                    LAMBDA s : SubLimbStep(s, p[1][s.i] - LimbAt(p[2], s.i) - s.c),
                    [i |-> 1, c |-> 0, out |-> <<>>]).out))

U128Limbs == 16
U128_MAX == [i \in 1..U128Limbs |-> LimbRadix - 1]

\* Wrapping u128 arithmetic: keep the low 128 bits.
Wrap128(x) ==
    Strict(x, LAMBDA v : IF Len(v) > U128Limbs THEN BigNorm(SubSeq(v, 1, U128Limbs))
                         ELSE v)

-----------------------------------------------------------------------------
\* The long-division recurrence shared by baseline.rs and optimized.rs.

\* A variant of the step that carries the whole value on, not its remainder.
div_step_carrying_value(s, value, to) ==
    [i |-> s.i + 1,
     next |-> IF s.next /= <<>> \/ value \div to /= 0
              THEN Append(s.next, value \div to) ELSE s.next,
     carry |-> value]

\* One step of a division pass (the body of the inner loop) on the digit
\* whose value = carry * from_base + digit is given: s is [i |-> position in
\* the visiting order, next |-> quotient digits pushed so far, carry].
div_step(s, value, to) ==
    [i |-> s.i + 1,
     next |-> IF s.next /= <<>> \/ value \div to /= 0
              THEN Append(s.next, value \div to) ELSE s.next,
     carry |-> value % to]

\* The steps of a division pass over `visit`, one record per digit: the
\* carry before the step, the step's value and the quotient it computes.
pass_steps(visit, from, to) ==
    Strict(visit, LAMBDA v :
      While(LAMBDA s : s.st.i <= Len(v),
            LAMBDA s : Strict(s.st.carry * from + v[s.st.i], LAMBDA value :
                         [st |-> div_step(s.st, value, to),
                          steps |-> Append(s.steps,
                                           [carry |-> s.st.carry, value |-> value,
                                            quotient |-> value \div to])]),
            [st |-> [i |-> 1, next |-> <<>>, carry |-> 0], steps |-> <<>>]).steps)

\* A division pass over the digits in the order `visit` lists them.
div_pass(visit, from, to) ==
    Strict(visit, LAMBDA v :
      While(LAMBDA s : s.i <= Len(v),
            LAMBDA s : div_step(s, s.carry * from + v[s.i], to),
            [i |-> 1, next |-> <<>>, carry |-> 0]))

-----------------------------------------------------------------------------
\* baseline.rs: the reference converter.

\* One pass of the while loop: current.iter().rev(), next_current.reverse(),
\* result.push(carry).
\* A variant of the pass that puts each new digit in front of the result
\* (most-significant digit first).
baseline_pass_msd_first(s, from, to) ==
    Strict(div_pass(Reverse(s.current), from, to), LAMBDA st :
      [current |-> Reverse(st.next), result |-> <<st.carry>> \o s.result])

\* A variant of the pass that leaves the next sequence most-significant
\* digit first.
baseline_pass_unreversed(s, from, to) ==
    Strict(div_pass(Reverse(s.current), from, to), LAMBDA st :
      [current |-> st.next, result |-> Append(s.result, st.carry)])

baseline_pass(s, from, to) ==
    Strict(div_pass(Reverse(s.current), from, to), LAMBDA st :
      [current |-> Reverse(st.next), result |-> Append(s.result, st.carry)])

baseline_loop(d, from, to) ==
    While(LAMBDA s : ~is_zero_or_empty(s.current),
          LAMBDA s : baseline_pass(s, from, to),
          [current |-> d, result |-> <<>>]).result

\* A variant of the reference converter without the empty/zero shortcut.
convert_base_baseline_no_zero_shortcut(d, from, to) ==
    IF base_out_of_range(from) \/ base_out_of_range(to)
    THEN Panic("InvalidBase")
    ELSE IF from = to THEN Ok(d)
    ELSE IF has_invalid_digit(d, from) THEN Panic("InvalidDigit")
    ELSE Ok(pop_trailing_zeros(baseline_loop(d, from, to)))

\* A variant of the reference converter whose same-base shortcut returns the
\* digits most-significant first.
convert_base_baseline_same_base_reversed(d, from, to) ==
    IF base_out_of_range(from) \/ base_out_of_range(to)
    THEN Panic("InvalidBase")
    ELSE IF from = to THEN Ok(Reverse(d))
    ELSE IF is_zero_or_empty(d) THEN Ok(<<0>>)
    ELSE IF has_invalid_digit(d, from) THEN Panic("InvalidDigit")
    ELSE Ok(pop_trailing_zeros(baseline_loop(d, from, to)))

convert_base_baseline(d, from, to) ==
    IF base_out_of_range(from) \/ base_out_of_range(to)
    THEN Panic("InvalidBase")
    ELSE IF from = to THEN Ok(d)
    ELSE IF is_zero_or_empty(d) THEN Ok(<<0>>)
    ELSE IF has_invalid_digit(d, from) THEN Panic("InvalidDigit")
    ELSE Ok(pop_trailing_zeros(baseline_loop(d, from, to)))

-----------------------------------------------------------------------------
\* utils.rs: bit helpers on u64.

RECURSIVE BitAnd(_, _)
BitAnd(a, b) ==
    IF a = 0 \/ b = 0 THEN 0
    ELSE (a % 2) * (b % 2) + 2 * BitAnd(a \div 2, b \div 2)

RECURSIVE BitOr(_, _)
BitOr(a, b) ==
    IF a = 0 THEN b
    ELSE IF b = 0 THEN a
    ELSE (IF a % 2 = 1 \/ b % 2 = 1 THEN 1 ELSE 0) + 2 * BitOr(a \div 2, b \div 2)

RECURSIVE Pow2(_)
Pow2(k) == IF k = 0 THEN 1 ELSE 2 * Pow2(k - 1)

RECURSIVE trailing_zeros(_)
trailing_zeros(n) == IF n % 2 = 1 THEN 0 ELSE 1 + trailing_zeros(n \div 2)

is_power_of_two(n) == n > 0 /\ BitAnd(n, n - 1) = 0

log2_of_power_of_two(n) == trailing_zeros(n)

-----------------------------------------------------------------------------
\* optimized.rs, strategy 1: re-basing through a bit accumulator.
\* The state is [buffer, buffer_bits, result].

\* A variant of the drain that pushes the low bits but does not shift them out.
pow2_drain_without_shift(st, to_shift) ==
    While(LAMBDA s : s.buffer_bits >= to_shift,
          LAMBDA s : [buffer |-> s.buffer,
                      buffer_bits |-> s.buffer_bits - to_shift,
                      result |-> Append(s.result, s.buffer % Pow2(to_shift))],
          st)

\* `while buffer_bits >= to_shift { push(buffer & mask); buffer >>= to_shift;
\* buffer_bits -= to_shift }`
pow2_drain(st, to_shift) ==
    While(LAMBDA s : s.buffer_bits >= to_shift,
          LAMBDA s : [buffer |-> s.buffer \div Pow2(to_shift),
                      buffer_bits |-> s.buffer_bits - to_shift,
                      result |-> Append(s.result, s.buffer % Pow2(to_shift))],
          st)

\* The body of `for &digit in digits`.
pow2_step(st, digit, from_shift, to_shift) ==
    pow2_drain([buffer |-> BitOr(st.buffer, digit * Pow2(st.buffer_bits)),
                buffer_bits |-> st.buffer_bits + from_shift,
                result |-> st.result],
               to_shift)

\* A variant of the last step that drops the residual bits.
pow2_finish_without_residual(fin) == pop_trailing_zeros(fin.result)

\* The accumulator after the first n digits of d have been processed.
pow2_prefix(d, n, from_shift, to_shift) ==
    While(LAMBDA s : s.i <= n,
          LAMBDA s : [i |-> s.i + 1,
                      st |-> pow2_step(s.st, d[s.i], from_shift, to_shift)],
          [i |-> 1,
           st |-> [buffer |-> 0, buffer_bits |-> 0, result |-> <<>>]]).st

\* The residual push and the final trim.
pow2_finish(fin) ==
    pop_trailing_zeros(IF fin.buffer_bits > 0 THEN Append(fin.result, fin.buffer)
                       ELSE fin.result)

convert_power_of_two_optimized(d, from, to) ==
    Strict(<<log2_of_power_of_two(from), log2_of_power_of_two(to)>>, LAMBDA shift :
      Strict(While(LAMBDA s : s.i <= Len(d),
                   LAMBDA s : [i |-> s.i + 1,
                               st |-> pow2_step(s.st, d[s.i], shift[1], shift[2])],
                   [i |-> 1,
                    st |-> [buffer |-> 0, buffer_bits |-> 0, result |-> <<>>]]).st,
             pow2_finish))

-----------------------------------------------------------------------------
\* optimized.rs, strategy 2: accumulate into a u128, then emit digits.

SMALL_DIGIT_CAP == 20

None128 == [some |-> FALSE, num |-> <<>>]
Some128(x) == [some |-> TRUE, num |-> x]

\* A variant of the accumulation step without the two overflow checks: the
\* accumulator wraps modulo 2^128.
u128_step_wrapping(s, digit, base) ==
    [i |-> s.i - 1,
     result |-> Wrap128(BigAddSmall(Wrap128(BigMulSmall(s.result, base)), digit)),
     overflow |-> FALSE]

\* The body of `for &digit in digits.iter().rev()` with its two overflow
\* checks; s is [i, result, overflow], i running from the last digit down.
u128_step(s, digit, base) ==
    IF BigGT(s.result, BigDivMod(U128_MAX, base).q)
    THEN [i |-> s.i, result |-> s.result, overflow |-> TRUE]
    ELSE Strict(BigMulSmall(s.result, base), LAMBDA multiplied :
           IF BigGT(multiplied, BigSub(U128_MAX, BigFromInt(digit)))
           THEN [i |-> s.i, result |-> multiplied, overflow |-> TRUE]
           ELSE [i |-> s.i - 1, result |-> BigAddSmall(multiplied, digit),
                 overflow |-> FALSE])

try_convert_to_u128(d, base) ==
    IF Len(d) > SMALL_DIGIT_CAP THEN None128
    ELSE Strict(While(LAMBDA s : s.i >= 1 /\ ~s.overflow,
                      LAMBDA s : u128_step(s, d[s.i], base),
                      [i |-> Len(d), result |-> <<>>, overflow |-> FALSE]),
                LAMBDA fin : IF fin.overflow THEN None128 ELSE Some128(fin.result))

\* `while num > 0 { push(num % base); num /= base }` on an unbounded natural.
emit_digits(num, base) ==
    While(LAMBDA s : s.num /= <<>>,
          LAMBDA s : Strict(BigDivMod(s.num, base), LAMBDA qr :
                       [num |-> qr.q, result |-> Append(s.result, qr.r)]),
          [num |-> num, result |-> <<>>]).result

\* A variant that takes the remainders modulo base + 1.
convert_from_u128_next_base(num, base) ==
    IF num = <<>> THEN <<0>> ELSE emit_digits(num, base + 1)

convert_from_u128(num, base) ==
    IF num = <<>> THEN <<0>> ELSE emit_digits(num, base)

-----------------------------------------------------------------------------
\* optimized.rs: prime factorization and the process-wide cache.
\* A factorization is a sequence of <<prime, exponent>> pairs.

PairLess(x, y) == x[1] < y[1] \/ (x[1] = y[1] /\ x[2] < y[2])

\* factors.sort(): each pair goes to the position given by the number of
\* pairs that sort before it (the pairs of a factorization are distinct).
SortPairs(s) ==
    Strict(s, LAMBDA v :
      [i \in 1..Len(v) |->
         v[CHOOSE j \in 1..Len(v) :
             Cardinality({k \in 1..Len(v) : PairLess(v[k], v[j])}) = i - 1]])

\* The inner `while n % p == 0 { n /= p; count += 1 }`: [n, count].
strip_factor(n, p) ==
    While(LAMBDA s : s.n % p = 0,
          LAMBDA s : [n |-> s.n \div p, count |-> s.count + 1],
          [n |-> n, count |-> 0])

\* The body of `while p * p <= n`; s is [n, p, factors].
odd_factor_step(s) ==
    IF s.n % s.p = 0
    THEN Strict(strip_factor(s.n, s.p), LAMBDA f :
           [n |-> f.n, p |-> s.p + 2,
            factors |-> Append(s.factors, <<s.p, f.count>>)])
    ELSE [n |-> s.n, p |-> s.p + 2, factors |-> s.factors]

\* A variant of the last step that drops the factor left over after the loop.
factors_finish_without_residual(fin) == SortPairs(fin.factors)

\* The residual factor and the sort.
factors_finish(fin) ==
    SortPairs(IF fin.n > 1 THEN Append(fin.factors, <<fin.n, 1>>) ELSE fin.factors)

prime_factorization(n) ==
    Strict(IF n % 2 = 0 THEN trailing_zeros(n) ELSE 0, LAMBDA count :
      Strict(While(LAMBDA s : s.p * s.p <= s.n, odd_factor_step,
                   [n |-> n \div Pow2(count), p |-> 3,
                    factors |-> IF n % 2 = 0 THEN <<(<<2, count>>)>> ELSE <<>>]),
             factors_finish))

\* FACTORIZATION_CACHE: None until the first query, then a map from base to
\* factorization. The map is a function on its key set.
EmptyMap == [k \in {} |-> <<>>]
CacheNone == [some |-> FALSE, map |-> EmptyMap]

MapInsert(m, k, v) == [x \in DOMAIN m \cup {k} |-> IF x = k THEN v ELSE m[x]]

\* A variant whose hit branch returns the stored primes without their
\* exponents.
get_factorization_forgetting_exponents(c, n) ==
    IF n \in DOMAIN c.map
    THEN [result |-> [i \in 1..Len(c.map[n]) |-> <<c.map[n][i][1], 1>>],
          cache |-> [some |-> TRUE, map |-> c.map]]
    ELSE Strict(prime_factorization(n), LAMBDA computed :
           [result |-> computed,
            cache |-> [some |-> TRUE, map |-> MapInsert(c.map, n, computed)]])

\* One call under the lock: [result |-> factorization, cache |-> cache after].
get_factorization(c, n) ==
    IF n \in DOMAIN c.map
    THEN [result |-> c.map[n], cache |-> [some |-> TRUE, map |-> c.map]]
    ELSE Strict(prime_factorization(n), LAMBDA computed :
           [result |-> computed,
            cache |-> [some |-> TRUE, map |-> MapInsert(c.map, n, computed)]])

-----------------------------------------------------------------------------
\* optimized.rs, strategy 3: aligned bases.

MAX_EXPONENT == 10

NoAlign(c) == [found |-> FALSE, a |-> 0, b |-> 0, cache |-> c]
Align(a, b, c) == [found |-> TRUE, a |-> a, b |-> b, cache |-> c]

\* u64::pow as an unbounded natural (compared, never truncated here).
RECURSIVE BigPow(_, _)
BigPow(base, e) == IF e = 0 THEN <<1>> ELSE BigMulSmall(BigPow(base, e - 1), base)

\* The nested `for a` / `for b` loops, returning at the first match; s is
\* [a, b, found].
exponent_search(from, to, c) ==
    Strict(While(LAMBDA s : s.a <= MAX_EXPONENT /\ ~s.found,
                 LAMBDA s : IF BigPow(to, s.b) = BigPow(from, s.a)
                            THEN [a |-> s.a, b |-> s.b, found |-> TRUE]
                            ELSE IF s.b < MAX_EXPONENT
                            THEN [a |-> s.a, b |-> s.b + 1, found |-> FALSE]
                            ELSE [a |-> s.a + 1, b |-> 1, found |-> FALSE],
                 [a |-> 1, b |-> 1, found |-> FALSE]),
           LAMBDA fin : IF fin.found THEN Align(fin.a, fin.b, c) ELSE NoAlign(c))

\* The general case of find_aligned_exponents: both factorizations through
\* the cache, then the search.
aligned_by_factorization(c, from, to) ==
    Strict(get_factorization(c, from), LAMBDA f :
      Strict(get_factorization(f.cache, to), LAMBDA t :
        IF f.result /= t.result THEN NoAlign(t.cache)
        ELSE exponent_search(from, to, t.cache)))

\* A variant of the table whose 27/3 arm is one output digit short.
find_aligned_exponents_short_block(c, from, to) ==
    IF <<from, to>> \in {<<4, 16>>, <<16, 4>>} THEN Align(2, 1, c)
    ELSE IF <<from, to>> \in {<<8, 64>>, <<64, 8>>} THEN Align(2, 1, c)
    ELSE IF <<from, to>> \in {<<27, 3>>, <<3, 27>>} THEN Align(1, 2, c)
    ELSE IF <<from, to>> \in {<<16, 2>>, <<2, 16>>} THEN Align(1, 4, c)
    ELSE IF <<from, to>> \in {<<32, 2>>, <<2, 32>>} THEN Align(1, 5, c)
    ELSE aligned_by_factorization(c, from, to)

find_aligned_exponents(c, from, to) ==
    IF <<from, to>> \in {<<4, 16>>, <<16, 4>>} THEN Align(2, 1, c)
    ELSE IF <<from, to>> \in {<<8, 64>>, <<64, 8>>} THEN Align(2, 1, c)
    ELSE IF <<from, to>> \in {<<27, 3>>, <<3, 27>>} THEN Align(1, 3, c)
    ELSE IF <<from, to>> \in {<<16, 2>>, <<2, 16>>} THEN Align(1, 4, c)
    ELSE IF <<from, to>> \in {<<32, 2>>, <<2, 32>>} THEN Align(1, 5, c)
    ELSE aligned_by_factorization(c, from, to)

\* from_powers[i] = from_base^(i-1), i in 1..exp_a.
from_powers_upto(from, exp_a) ==
    While(LAMBDA p : Len(p) < exp_a,
          LAMBDA p : Append(p, Wrap128(BigMulSmall(p[Len(p)], from))),
          <<(<<1>>)>>)

\* `value += digit as u128 * from_powers[i]` over the chunk d[lo..hi].
chunk_value(d, lo, hi, powers) ==
    While(LAMBDA s : s.i <= hi,
          LAMBDA s : [i |-> s.i + 1,
                      value |-> Wrap128(BigAdd(s.value,
                                   Wrap128(BigMulSmall(powers[s.i - lo + 1], d[s.i]))))],
          [i |-> lo, value |-> <<>>]).value

\* `for _ in 0..exp_b { push(value % to_base); value /= to_base }`
emit_fixed(value, to, exp_b, result) ==
    While(LAMBDA s : s.k < exp_b,
          LAMBDA s : Strict(BigDivMod(s.value, to), LAMBDA qr :
                       [k |-> s.k + 1, value |-> qr.q,
                        result |-> Append(s.result, qr.r)]),
          [k |-> 0, value |-> value, result |-> result]).result

\* What is left of `value` when the `for _ in 0..exp_b` loop ends.
chunk_remaining(value, to, exp_b) ==
    While(LAMBDA s : s.k < exp_b,
          LAMBDA s : [k |-> s.k + 1, value |-> BigDivMod(s.value, to).q],
          [k |-> 0, value |-> value]).value

\* `for chunk in digits.chunks(exp_a)`; s is [lo, result], lo the first index
\* of the chunk.
aligned_chunks(d, to, exp_a, exp_b, from_powers) ==
    Strict(from_powers, LAMBDA powers :
      While(LAMBDA s : s.lo <= Len(d),
            LAMBDA s : [lo |-> s.lo + exp_a,
                        result |-> emit_fixed(
                            chunk_value(d, s.lo, Min(s.lo + exp_a - 1, Len(d)), powers),
                            to, exp_b, s.result)],
            [lo |-> 1, result |-> <<>>]).result)

convert_aligned_bases(d, from, to, exp_a, exp_b) ==
    pop_trailing_zeros(
        aligned_chunks(d, to, exp_a, exp_b, from_powers_upto(from, exp_a)))

-----------------------------------------------------------------------------
\* optimized.rs, strategy 4: the blocked long division and its sub-chunked
\* variant. Each pass runs the same recurrence (div_step) over the digits of
\* the current sequence in the order the loops index them.

UNROLL_16 == 16
UNROLL_4 == 4
LARGE_THRESHOLD == 2000
CHUNK_SIZE == 64

\* Blocks of `width` taken from the top (i -= width), each block indexed
\* current[i + 0], current[i + 1], ..., then the remainder with i -= 1.
blocked_visit(current, width) ==
    [j \in 1..Len(current) |->
       IF (j - 1) \div width < Len(current) \div width
       THEN current[Len(current) - width * ((j - 1) \div width + 1)
                    + ((j - 1) % width) + 1]
       ELSE current[Len(current) + 1 - j]]

\* The order one pass of convert_general_optimized_tricks visits the digits.
general_visit(current) ==
    IF Len(current) >= UNROLL_16 THEN blocked_visit(current, UNROLL_16)
    ELSE IF Len(current) >= UNROLL_4 THEN blocked_visit(current, UNROLL_4)
    ELSE Reverse(current)

\* current_digits.chunks(CHUNK_SIZE) in slice order, each chunk reversed.
chunked_visit(current) ==
    [j \in 1..Len(current) |->
       current[Min(CHUNK_SIZE * ((j - 1) \div CHUNK_SIZE + 1), Len(current))
               - ((j - 1) % CHUNK_SIZE)]]

\* One pass of a blocked loop; `seen` records the sequences a pass has started
\* from: the loop is deterministic in `current`, so meeting one again means
\* the loop never exits.
general_pass(s, from, to) ==
    Strict(div_pass(general_visit(s.current), from, to), LAMBDA st :
      [current |-> Reverse(st.next), result |-> Append(s.result, st.carry),
       seen |-> s.seen \cup {s.current}])

chunked_pass(s, from, to) ==
    Strict(div_pass(chunked_visit(s.current), from, to), LAMBDA st :
      [current |-> Reverse(st.next), result |-> Append(s.result, st.carry),
       seen |-> s.seen \cup {s.current}])

\* The outcome of a division loop that ended in state fin: the trimmed result,
\* or no return at all when the loop came back to an earlier sequence.
loop_outcome(fin) ==
    IF is_zero_or_empty(fin.current) THEN Ok(pop_trailing_zeros(fin.result))
    ELSE Panic("Diverges")

convert_large_number_chunked(d, from, to) ==
    Strict(While(LAMBDA s : ~is_zero_or_empty(s.current) /\ s.current \notin s.seen,
                 LAMBDA s : chunked_pass(s, from, to),
                 [current |-> d, result |-> <<>>, seen |-> {}]),
           loop_outcome)

\* Trick 1: `while value > 0 { push(value % to_base); value /= to_base }`.
single_digit_loop(digit, to) ==
    While(LAMBDA s : s.value > 0,
          LAMBDA s : [value |-> s.value \div to,
                      result |-> Append(s.result, s.value % to)],
          [value |-> digit, result |-> <<>>]).result

convert_general_optimized_tricks(d, from, to) ==
    IF Len(d) = 1
    THEN Ok(IF d[1] < to THEN <<d[1]>> ELSE single_digit_loop(d[1], to))
    ELSE IF Len(d) > LARGE_THRESHOLD /\ to < from
    THEN convert_large_number_chunked(d, from, to)
    ELSE Strict(While(LAMBDA s : ~is_zero_or_empty(s.current)
                                 /\ s.current \notin s.seen,
                      LAMBDA s : general_pass(s, from, to),
                      [current |-> d, result |-> <<>>, seen |-> {}]),
                loop_outcome)

-----------------------------------------------------------------------------
\* optimized.rs: the strategy-selecting entry point. Returns the outcome, the
\* cache after the call and the strategy that produced the result.

Result(out, c, s) == [out |-> out, cache |-> c, strategy |-> s]

\* Strategies 3 and 4, reached when the small-value path gives up.
aligned_or_general(c, d, from, to) ==
    Strict(find_aligned_exponents(c, from, to), LAMBDA al :
      IF al.found
      THEN Result(Ok(convert_aligned_bases(d, from, to, al.a, al.b)),
                  al.cache, "aligned")
      ELSE Result(convert_general_optimized_tricks(d, from, to),
                  al.cache, "general"))

\* A variant of strategies 2 to 4 that runs the aligned-base detection before
\* the small-value attempt.
small_or_later_detecting_first(c, d, from, to) ==
    Strict(find_aligned_exponents(c, from, to), LAMBDA al :
      Strict(try_convert_to_u128(d, from), LAMBDA num :
        IF num.some
        THEN Result(Ok(convert_from_u128(num.num, to)), al.cache, "small_value")
        ELSE aligned_or_general(al.cache, d, from, to)))

\* Strategies 2 to 4, reached when the bases are not both powers of two.
small_or_later(c, d, from, to) ==
    Strict(try_convert_to_u128(d, from), LAMBDA num :
      IF num.some
      THEN Result(Ok(convert_from_u128(num.num, to)), c, "small_value")
      ELSE aligned_or_general(c, d, from, to))

\* A variant of the selector that tries the aligned-base detection first.
convert_base_aligned_first(c, d, from, to) ==
    IF base_out_of_range(from) \/ base_out_of_range(to)
    THEN Result(Panic("InvalidBase"), c, "panic")
    ELSE IF from = to THEN Result(Ok(d), c, "same_base")
    ELSE IF is_zero_or_empty(d) THEN Result(Ok(<<0>>), c, "zero")
    ELSE IF has_invalid_digit(d, from) THEN Result(Panic("InvalidDigit"), c, "panic")
    ELSE IF find_aligned_exponents(c, from, to).found
    THEN aligned_or_general(c, d, from, to)
    ELSE IF is_power_of_two(from) /\ is_power_of_two(to)
    THEN Result(Ok(convert_power_of_two_optimized(d, from, to)), c, "power_of_two")
    ELSE small_or_later(c, d, from, to)

convert_base(c, d, from, to) ==
    IF base_out_of_range(from) \/ base_out_of_range(to)
    THEN Result(Panic("InvalidBase"), c, "panic")
    ELSE IF from = to THEN Result(Ok(d), c, "same_base")
    ELSE IF is_zero_or_empty(d) THEN Result(Ok(<<0>>), c, "zero")
    ELSE IF has_invalid_digit(d, from) THEN Result(Panic("InvalidDigit"), c, "panic")
    ELSE IF is_power_of_two(from) /\ is_power_of_two(to)
    THEN Result(Ok(convert_power_of_two_optimized(d, from, to)), c, "power_of_two")
    ELSE small_or_later(c, d, from, to)

\* A variant of the convenience entry point that dispatches to the reference
\* converter instead of the strategy selector.
convert_base_auto_via_baseline(c, d, from, to) ==
    Result(convert_base_baseline(d, from, to), c, "baseline")

\* lib.rs: the convenience entry point.
convert_base_auto(c, d, from, to) == convert_base(c, d, from, to)

-----------------------------------------------------------------------------
\* The tests' independent ground truth (tests/integration_tests.rs).

\* result += digit * power; power *= base, least-significant digit first.
digits_to_biguint(d, base) ==
    While(LAMBDA s : s.i <= Len(d),
          LAMBDA s : [i |-> s.i + 1,
                      result |-> BigAdd(s.result, BigMulSmall(s.power, d[s.i])),
                      power |-> BigMulSmall(s.power, base)],
          [i |-> 1, result |-> <<>>, power |-> <<1>>]).result

biguint_to_digits(num, base) ==
    IF num = <<>> THEN <<0>> ELSE emit_digits(num, base)

\* utils.rs: drop most-significant zeros, keeping one digit.
trim_leading_zeros(d) ==
    IF d = <<>> THEN d
    ELSE SubSeq(d, 1, While(LAMBDA end : end > 1 /\ d[end] = 0,
                            LAMBDA end : end - 1, Len(d)))

-----------------------------------------------------------------------------
\* The driver: one argument triple; the reference converter, the optimized
\* converter and the alias are applied to it in turn, then the reference
\* converter is applied back to its own result.

\* No private function has been called directly.
NoInnerCall ==
    /\ inner_fn = "none"
    /\ inner_out = NotCalled
    /\ arg_a = 0
    /\ arg_b = 0

\* No division loop is being stepped through.
NoLoop == loop = [current |-> <<>>, result |-> <<>>, passes |-> 0]

\* No caller is inside get_factorization.
NoCallers ==
    /\ callers = <<>>
    /\ lock = 0
    /\ queried = {}
    /\ computations = EmptyMap

Init ==
    /\ from_base \in SampleBases
    /\ to_base \in SampleBases
    /\ digits \in Inputs(from_base)
    /\ baseline_out = NotCalled
    /\ optimized_out = NotCalled
    /\ auto_out = NotCalled
    /\ round_trip_out = NotCalled
    /\ strategy = "none"
    /\ cache = CacheNone
    /\ NoInnerCall
    /\ NoLoop
    /\ NoCallers

CallBaseline ==
    /\ baseline_out = NotCalled
    /\ baseline_out' = convert_base_baseline(digits, from_base, to_base)
    /\ UNCHANGED <<digits, from_base, to_base, optimized_out, auto_out,
                   round_trip_out, strategy, cache>>
    /\ UNCHANGED <<inner_vars, caller_vars, loop>>

CallOptimized ==
    /\ baseline_out /= NotCalled
    /\ optimized_out = NotCalled
    /\ \E r \in {convert_base(cache, digits, from_base, to_base)} :
          /\ optimized_out' = r.out
          /\ cache' = r.cache
          /\ strategy' = r.strategy
    /\ UNCHANGED <<digits, from_base, to_base, baseline_out, auto_out,
                   round_trip_out>>
    /\ UNCHANGED <<inner_vars, caller_vars, loop>>

CallAuto ==
    /\ optimized_out /= NotCalled
    /\ auto_out = NotCalled
    /\ \E r \in {convert_base_auto(cache, digits, from_base, to_base)} :
          /\ auto_out' = r.out
          /\ cache' = r.cache
    /\ UNCHANGED <<digits, from_base, to_base, baseline_out, optimized_out,
                   round_trip_out, strategy>>
    /\ UNCHANGED <<inner_vars, caller_vars, loop>>

CallRoundTrip ==
    /\ auto_out /= NotCalled
    /\ baseline_out.kind = "Ok"
    /\ round_trip_out = NotCalled
    /\ round_trip_out' = convert_base_baseline(baseline_out.val, to_base, from_base)
    /\ UNCHANGED <<digits, from_base, to_base, baseline_out, optimized_out,
                   auto_out, strategy, cache>>
    /\ UNCHANGED <<inner_vars, caller_vars, loop>>

Next == CallBaseline \/ CallOptimized \/ CallAuto \/ CallRoundTrip

Spec == Init /\ [][Next]_vars

-----------------------------------------------------------------------------
\* Concurrent conversions inside find_aligned_exponents (optimized.rs:167-168):
\* each caller asks get_factorization for its from_base, then for its to_base.
\* The MutexGuard taken on entry lives to the end of get_factorization.

\* Number of concurrent callers.
NumCallers == 2

\* The bases the callers draw their pairs from.
CacheBases == {6, 10, 65536}

\* A caller about to enter get_factorization for the first base of its pair.
NewCaller(from, to) ==
    [pc |-> "want", bases |-> <<from, to>>, idx |-> 1, results |-> <<>>]

\* The base a caller is asking for.
wanted(p) == callers[p].bases[callers[p].idx]

\* A variant of the lock that does not wait for the holder to release.
AcquireWithoutExclusion(p) ==
    /\ callers[p].pc = "want"
    /\ lock' = p
    /\ queried' = queried \cup {wanted(p)}
    /\ callers' = [callers EXCEPT ![p].pc = "lookup"]
    /\ UNCHANGED <<cache, computations, conversion_vars>>

\* `FACTORIZATION_CACHE.lock().unwrap()`: blocks while another caller holds
\* the mutex.
Acquire(p) ==
    /\ callers[p].pc = "want"
    /\ lock = 0
    /\ lock' = p
    /\ queried' = queried \cup {wanted(p)}
    /\ callers' = [callers EXCEPT ![p].pc = "lookup"]
    /\ UNCHANGED <<cache, computations, conversion_vars>>

\* `if cache.is_none() { *cache = Some(HashMap::new()) }` and
\* `cache_map.get(&n)`: a hit returns the clone of the stored record.
Lookup(p) ==
    /\ callers[p].pc = "lookup"
    /\ cache' = [some |-> TRUE, map |-> cache.map]
    /\ callers' = IF wanted(p) \in DOMAIN cache.map
                  THEN [callers EXCEPT ![p].pc = "release",
                                       ![p].results = Append(@, cache.map[wanted(p)])]
                  ELSE [callers EXCEPT ![p].pc = "compute"]
    /\ UNCHANGED <<lock, queried, computations, conversion_vars>>

\* A variant of the miss branch that starts the map afresh with the new entry.
ComputeInsertEvicting(p) ==
    /\ callers[p].pc = "compute"
    /\ \E factors \in {prime_factorization(wanted(p))} :
          /\ cache' = [some |-> TRUE, map |-> MapInsert(EmptyMap, wanted(p), factors)]
          /\ callers' = [callers EXCEPT ![p].pc = "release",
                                        ![p].results = Append(@, factors)]
    /\ computations' = [computations EXCEPT ![wanted(p)] = @ + 1]
    /\ UNCHANGED <<lock, queried, conversion_vars>>

\* The miss branch: `let computed = prime_factorization(n);
\* cache_map.insert(n, computed.clone()); computed`.
ComputeInsert(p) ==
    /\ callers[p].pc = "compute"
    /\ \E factors \in {prime_factorization(wanted(p))} :
          /\ cache' = [some |-> TRUE, map |-> MapInsert(cache.map, wanted(p), factors)]
          /\ callers' = [callers EXCEPT ![p].pc = "release",
                                        ![p].results = Append(@, factors)]
    /\ computations' = [computations EXCEPT ![wanted(p)] = @ + 1]
    /\ UNCHANGED <<lock, queried, conversion_vars>>

\* A variant of the return that keeps the mutex locked.
ReleaseKeepingLock(p) ==
    /\ callers[p].pc = "release"
    /\ callers' = IF callers[p].idx < Len(callers[p].bases)
                  THEN [callers EXCEPT ![p].pc = "want", ![p].idx = @ + 1]
                  ELSE [callers EXCEPT ![p].pc = "done"]
    /\ UNCHANGED <<lock, cache, queried, computations, conversion_vars>>

\* The return: the guard is dropped; the caller goes on to its next base or
\* has both factorizations.
Release(p) ==
    /\ callers[p].pc = "release"
    /\ lock' = IF lock = p THEN 0 ELSE lock
    /\ callers' = IF callers[p].idx < Len(callers[p].bases)
                  THEN [callers EXCEPT ![p].pc = "want", ![p].idx = @ + 1]
                  ELSE [callers EXCEPT ![p].pc = "done"]
    /\ UNCHANGED <<cache, queried, computations, conversion_vars>>

CacheInit ==
    /\ digits = <<>>
    /\ from_base = MIN_BASE
    /\ to_base = MIN_BASE
    /\ baseline_out = NotCalled
    /\ optimized_out = NotCalled
    /\ auto_out = NotCalled
    /\ round_trip_out = NotCalled
    /\ strategy = "none"
    /\ NoInnerCall
    /\ NoLoop
    /\ cache = CacheNone
    /\ callers \in [1..NumCallers ->
                      {NewCaller(pair[1], pair[2]) :
                         pair \in {q \in CacheBases \X CacheBases : q[1] /= q[2]}}]
    /\ lock = 0
    /\ queried = {}
    /\ computations = [n \in CacheBases |-> 0]

CacheNext ==
    \E p \in 1..NumCallers :
        Acquire(p) \/ Lookup(p) \/ ComputeInsert(p) \/ Release(p)

CacheSpec == CacheInit /\ [][CacheNext]_vars

\* Fair scheduling of the callers: a thread that can take its next step
\* (a blocked lock() once the mutex is free, or a step under the lock)
\* eventually takes it.
CacheFairSpec ==
    /\ CacheSpec
    /\ \A p \in 1..NumCallers :
          /\ WF_vars(Acquire(p))
          /\ WF_vars(Lookup(p))
          /\ WF_vars(ComputeInsert(p))
          /\ WF_vars(Release(p))

-----------------------------------------------------------------------------
\* Direct calls of the private functions of optimized.rs on valid arguments
\* (convert_base calls them after validation and the shortcuts), next to the
\* two public converters on the same arguments.

\* The bases of the direct calls: the table pairs 4/16 and 3/27, the pair
\* 9/27 (9^3 = 27^2), the pair 3^10/3^9 and bases with no common power.
InnerBases == {3, 4, 9, 16, 27, 19683, 59049}

\* The two large bases are paired with each other only.
LargeInnerBases == {19683, 59049}

InnerPairs ==
    {q \in InnerBases \X InnerBases :
        q[1] /= q[2] /\ (q[1] \in LargeInnerBases <=> q[2] \in LargeInnerBases)}

\* The bases whose inputs are also drawn longer than CHUNK_SIZE, for the
\* smaller to_base the sub-chunked variant is called with.
InnerLongBases == {4}

\* Input lengths: a single digit, below one 4-block, 4-blocks with remainder,
\* a 16-block with remainder (beyond the small-value cap), and (for
\* InnerLongBases) more than one chunk of the sub-chunked variant.
InnerLens(b) ==
    {1, UNROLL_4 - 1, 2 * UNROLL_4 + 1, SMALL_DIGIT_CAP + 1}
        \cup (IF b \in InnerLongBases THEN {CHUNK_SIZE + 2} ELSE {})

\* The pattern p repeated up to n digits.
Cycle(p, n) == [i \in 1..n |-> p[((i - 1) % Len(p)) + 1]]

InnerInputs(b) ==
    {Cycle(p, n) : p \in UNION {[1..k -> {0, 1, b - 1}] : k \in 1..MaxPatLen},
                   n \in InnerLens(b)}

\* The exact value of the chunk d[lo..hi] and whether the u128 arithmetic of
\* convert_aligned_bases leaves the range on some chunk of d.
chunk_value_exact(d, lo, hi, from) == digits_to_biguint(SubSeq(d, lo, hi), from)

aligned_overflows(d, from, exp_a) ==
    \/ BigGT(BigPow(from, exp_a - 1), U128_MAX)
    \/ \E k \in 0..((Len(d) - 1) \div exp_a) :
          BigGT(chunk_value_exact(d, k * exp_a + 1,
                                  Min((k + 1) * exp_a, Len(d)), from), U128_MAX)

\* The outcomes of convert_aligned_bases: where the u128 arithmetic overflows,
\* a build with overflow checks panics and a build without them wraps.
aligned_outcomes(d, from, to, a, b) ==
    {Ok(convert_aligned_bases(d, from, to, a, b))}
        \cup (IF aligned_overflows(d, from, a) THEN {Panic("Overflow")} ELSE {})

\* Option<(usize, usize)> as an outcome: Some((a, b)) or None.
AlignedOutcome(al) == IF al.found THEN Ok(<<al.a, al.b>>) ELSE Panic("None")

InnerInit ==
    /\ \E q \in InnerPairs : from_base = q[1] /\ to_base = q[2]
    /\ digits \in {d \in InnerInputs(from_base) :
                      /\ ~is_zero_or_empty(d)
                      /\ Len(d) > CHUNK_SIZE => to_base < from_base}
    /\ baseline_out = NotCalled
    /\ optimized_out = NotCalled
    /\ auto_out = NotCalled
    /\ round_trip_out = NotCalled
    /\ strategy = "none"
    /\ cache = CacheNone
    /\ NoInnerCall
    /\ NoLoop
    /\ NoCallers

InnerReady == optimized_out /= NotCalled /\ inner_fn = "none"

CallFindAligned ==
    /\ InnerReady
    /\ \E al \in {find_aligned_exponents(cache, from_base, to_base)} :
          /\ inner_out' = AlignedOutcome(al)
          /\ cache' = al.cache
    /\ inner_fn' = "find_aligned_exponents"
    /\ UNCHANGED <<digits, from_base, to_base, baseline_out, optimized_out, auto_out,
                   round_trip_out, strategy, arg_a, arg_b, caller_vars, loop>>

\* Called under its precondition from_base^a = to_base^b, a and b within the
\* bound of the exponent search.
CallAligned ==
    /\ InnerReady
    /\ \E from_pow \in {[e \in 1..MAX_EXPONENT |-> BigPow(from_base, e)]},
          to_pow \in {[e \in 1..MAX_EXPONENT |-> BigPow(to_base, e)]} :
          \E a \in 1..MAX_EXPONENT, b \in 1..MAX_EXPONENT :
              /\ from_pow[a] = to_pow[b]
              /\ arg_a' = a
              /\ arg_b' = b
              /\ inner_out' \in aligned_outcomes(digits, from_base, to_base, a, b)
    /\ inner_fn' = "convert_aligned_bases"
    /\ UNCHANGED <<digits, from_base, to_base, baseline_out, optimized_out, auto_out,
                   round_trip_out, strategy, cache, caller_vars, loop>>

CallGeneral ==
    /\ InnerReady
    /\ inner_out' = convert_general_optimized_tricks(digits, from_base, to_base)
    /\ inner_fn' = "convert_general_optimized_tricks"
    /\ UNCHANGED <<digits, from_base, to_base, baseline_out, optimized_out, auto_out,
                   round_trip_out, strategy, cache, arg_a, arg_b, caller_vars, loop>>

\* convert_general_optimized_tricks hands over only when to_base < from_base.
CallChunked ==
    /\ InnerReady
    /\ to_base < from_base
    /\ inner_out' = convert_large_number_chunked(digits, from_base, to_base)
    /\ inner_fn' = "convert_large_number_chunked"
    /\ UNCHANGED <<digits, from_base, to_base, baseline_out, optimized_out, auto_out,
                   round_trip_out, strategy, cache, arg_a, arg_b, caller_vars, loop>>

InnerNext ==
    \/ CallBaseline
    \/ CallOptimized
    \/ CallFindAligned
    \/ CallAligned
    \/ CallGeneral
    \/ CallChunked

InnerSpec == InnerInit /\ [][InnerNext]_vars

-----------------------------------------------------------------------------
\* Direct calls of the power-of-two converter on every pair of distinct
\* power-of-two bases, with the inputs convert_base hands it (validated,
\* non-zero).

PowerOfTwoBases == {Pow2(k) : k \in 1..16}

\* Input lengths: a single digit, and lengths whose bit count is and is not a
\* multiple of the output width.
ShiftLens == {1, 2, 3, 5}

\* Digits 0, 1, an alternating bit pattern and the largest digit.
ShiftInputs(b) ==
    {Cycle(p, n) : p \in UNION {[1..k -> {0, 1, (2 * b) \div 3, b - 1}] : k \in 1..MaxPatLen},
                   n \in ShiftLens}

ShiftInit ==
    /\ \E q \in {r \in PowerOfTwoBases \X PowerOfTwoBases : r[1] /= r[2]} :
          from_base = q[1] /\ to_base = q[2]
    /\ digits \in {d \in ShiftInputs(from_base) : ~is_zero_or_empty(d)}
    /\ baseline_out = NotCalled
    /\ optimized_out = NotCalled
    /\ auto_out = NotCalled
    /\ round_trip_out = NotCalled
    /\ strategy = "none"
    /\ cache = CacheNone
    /\ NoInnerCall
    /\ NoLoop
    /\ NoCallers

CallPowerOfTwo ==
    /\ inner_fn = "none"
    /\ inner_out' = Ok(convert_power_of_two_optimized(digits, from_base, to_base))
    /\ inner_fn' = "convert_power_of_two_optimized"
    /\ UNCHANGED <<digits, from_base, to_base, baseline_out, optimized_out, auto_out,
                   round_trip_out, strategy, cache, arg_a, arg_b, caller_vars, loop>>

ShiftNext ==
    \/ CallBaseline
    \/ CallPowerOfTwo

ShiftSpec == ShiftInit /\ [][ShiftNext]_vars

-----------------------------------------------------------------------------
\* Direct calls of prime_factorization on every base get_factorization can
\* hand it.

FactorArgs == MIN_BASE..MAX_BASE

FactorInit ==
    /\ from_base \in FactorArgs
    /\ to_base = from_base
    /\ digits = <<>>
    /\ baseline_out = NotCalled
    /\ optimized_out = NotCalled
    /\ auto_out = NotCalled
    /\ round_trip_out = NotCalled
    /\ strategy = "none"
    /\ cache = CacheNone
    /\ NoInnerCall
    /\ NoLoop
    /\ NoCallers

CallFactorization ==
    /\ inner_fn = "none"
    /\ inner_out' = Ok(prime_factorization(from_base))
    /\ inner_fn' = "prime_factorization"
    /\ UNCHANGED <<digits, from_base, to_base, baseline_out, optimized_out, auto_out,
                   round_trip_out, strategy, cache, arg_a, arg_b, caller_vars, loop>>

FactorNext == CallFactorization

FactorSpec == FactorInit /\ [][FactorNext]_vars

-----------------------------------------------------------------------------
\* The division loops of the reference converter, the blocked converter and
\* its sub-chunked variant, one pass at a time, on validated non-zero input.

\* Passes made before a loop is left alone (loops that never exit are cut
\* here; every loop of the reference converter ends earlier).
MaxPasses == 120

\* Base pairs: small bases either way, the pair the sub-chunked variant is
\* entered with, and the largest bases whose step value stays below 2^31
\* (TLC's integers are 32-bit).
LoopPairs ==
    {<<2, 3>>, <<3, 2>>, <<3, 10>>, <<10, 3>>, <<4, 3>>,
     <<10, 65536>>, <<65536, 10>>, <<65536, 32767>>, <<32767, 65536>>}

\* Input lengths as for the direct calls: the longest for the small bases,
\* more than one chunk for base 4.
LoopLens(b) ==
    {1, UNROLL_4 - 1, 2 * UNROLL_4 + 1}
        \cup (IF b <= 10 THEN {SMALL_DIGIT_CAP + 1} ELSE {})
        \cup (IF b = 4 THEN {CHUNK_SIZE + 2} ELSE {})

LoopInputs(b) ==
    {Cycle(p, n) : p \in UNION {[1..k -> {0, 1, b - 1}] : k \in 1..MaxPatLen},
                   n \in LoopLens(b)}

LoopInit ==
    /\ \E q \in LoopPairs : from_base = q[1] /\ to_base = q[2]
    /\ digits \in {d \in LoopInputs(from_base) : ~is_zero_or_empty(d)}
    /\ baseline_out = NotCalled
    /\ optimized_out = NotCalled
    /\ auto_out = NotCalled
    /\ round_trip_out = NotCalled
    /\ strategy = "none"
    /\ cache = CacheNone
    /\ NoInnerCall
    /\ NoLoop
    /\ NoCallers

\* `let mut current = digits.to_vec(); let mut result = Vec::new();`
EnterLoop(fn) ==
    /\ inner_fn = "none"
    /\ inner_fn' = fn
    /\ loop' = [current |-> digits, result |-> <<>>, passes |-> 0]
    /\ UNCHANGED <<digits, from_base, to_base, baseline_out, optimized_out, auto_out,
                   round_trip_out, strategy, cache, inner_out, arg_a, arg_b,
                   callers, lock, queried, computations>>

\* The reference converter reaches its loop with validated non-zero input.
EnterBaseline ==
    /\ ~has_invalid_digit(digits, from_base)
    /\ EnterLoop("baseline::convert_base")

\* The blocked loop is entered by inputs of more than one digit.
EnterGeneral ==
    /\ Len(digits) > 1
    /\ EnterLoop("convert_general_optimized_tricks")

EnterChunked ==
    /\ to_base < from_base
    /\ EnterLoop("convert_large_number_chunked")

\* The loop state as the pass operators take it.
LoopState == [current |-> loop.current, result |-> loop.result, seen |-> {}]

\* One iteration of `while !current.is_empty() && !(current.len() == 1 &&
\* current[0] == 0)`, taking the loop to the state `after` of its pass.
LoopStep(after) ==
    /\ inner_out = NotCalled
    /\ ~is_zero_or_empty(loop.current)
    /\ loop.passes < MaxPasses
    /\ \E next \in {after} :
          loop' = [current |-> next.current, result |-> next.result,
                   passes |-> loop.passes + 1]
    /\ UNCHANGED <<digits, from_base, to_base, baseline_out, optimized_out, auto_out,
                   round_trip_out, strategy, cache, inner_vars,
                   callers, lock, queried, computations>>

BaselinePass ==
    /\ inner_fn = "baseline::convert_base"
    /\ LoopStep(baseline_pass(LoopState, from_base, to_base))

GeneralPass ==
    /\ inner_fn = "convert_general_optimized_tricks"
    /\ LoopStep(general_pass(LoopState, from_base, to_base))

ChunkedPass ==
    /\ inner_fn = "convert_large_number_chunked"
    /\ LoopStep(chunked_pass(LoopState, from_base, to_base))

\* The loop has ended: trailing zeros are popped and the result returned.
LoopReturn ==
    /\ inner_fn /= "none"
    /\ inner_out = NotCalled
    /\ is_zero_or_empty(loop.current)
    /\ inner_out' = Ok(pop_trailing_zeros(loop.result))
    /\ UNCHANGED <<digits, from_base, to_base, baseline_out, optimized_out, auto_out,
                   round_trip_out, strategy, cache, inner_fn, arg_a, arg_b,
                   callers, lock, queried, computations, loop>>

LoopNext ==
    \/ EnterBaseline
    \/ EnterGeneral
    \/ EnterChunked
    \/ BaselinePass
    \/ GeneralPass
    \/ ChunkedPass
    \/ LoopReturn

LoopSpec == LoopInit /\ [][LoopNext]_vars

-----------------------------------------------------------------------------
\* Vocabulary of the properties.

ValidBase(b) == b >= 2 /\ b <= 65536
ValidBases == ValidBase(from_base) /\ ValidBase(to_base)
ValidDigits == \A i \in 1..Len(digits) : digits[i] < from_base
ValidInput == ValidBases /\ ValidDigits

IsCanonical(v) == v /= <<>> /\ (v[Len(v)] /= 0 \/ v = <<0>>)
Canonical(d) == IF trim_leading_zeros(d) = <<>> THEN <<0>> ELSE trim_leading_zeros(d)

Called(out) == out /= NotCalled

\* The outcomes of the two converters on the argument triple.
ConverterOuts == {baseline_out, optimized_out}

-----------------------------------------------------------------------------
\* C1: for every valid input the optimized converter returns exactly the
\* digit sequence the reference converter returns.
C1_OptimizedEqualsBaseline ==
    (ValidInput /\ Called(optimized_out)) => optimized_out = baseline_out

\* C2: for valid input and from_base /= to_base the reference converter
\* returns the least-significant-first digits, in to_base, of the integer the
\* input denotes in from_base, as computed by the independent oracle.
C2_BaselinePreservesValue ==
    (ValidInput /\ from_base /= to_base /\ Called(baseline_out))
        => baseline_out = Ok(biguint_to_digits(digits_to_biguint(digits, from_base),
                                               to_base))

\* A multi-digit, non-zero valid input has been converted between different
\* bases into a multi-digit result.
C2_Witness ==
    /\ ValidInput /\ from_base /= to_base
    /\ Len(digits) > SMALL_DIGIT_CAP /\ ~is_zero_or_empty(digits)
    /\ baseline_out.kind = "Ok" /\ Len(baseline_out.val) > 1

\* C3: for valid d, b1, b2 (b1 = b2 allowed, d possibly with most-significant
\* zeros) converting d from b1 to b2 and back with the reference converter
\* gives the canonical form of d.
C3_RoundTripIsCanonical ==
    (ValidInput /\ Called(round_trip_out)) => round_trip_out = Ok(Canonical(digits))

\* C4: with both bases valid and some digit >= from_base, both converters
\* fail with InvalidDigit, for every to_base including to_base = from_base.
C4_InvalidDigitFirst ==
    (ValidBases /\ ~ValidDigits)
        => \A out \in ConverterOuts : Called(out) => out = Panic("InvalidDigit")

\* C5: a call fails with InvalidBase exactly when from_base or to_base lies
\* outside [2, 65536], whatever the digits are (empty, zero or invalid).
C5_InvalidBaseExactly ==
    \A out \in ConverterOuts \cup {auto_out} :
        Called(out) => (out = Panic("InvalidBase") <=> ~ValidBases)

\* Both converters rejected an out-of-range base although the bases are equal
\* and the digit is invalid.
C5_Witness ==
    /\ from_base = MAX_BASE + 1 /\ to_base = from_base /\ ~ValidDigits
    /\ baseline_out = Panic("InvalidBase") /\ optimized_out = Panic("InvalidBase")

\* C6: every digit sequence either converter returns for valid input is
\* canonical: non-empty, and its last digit non-zero unless it is [0].
C6_OutputCanonical ==
    ValidInput
        => \A out \in ConverterOuts : out.kind = "Ok" => IsCanonical(out.val)

\* C7: for every pair of valid bases both converters turn [0] into [0].
C7_ZeroToZero ==
    (ValidBases /\ digits = <<0>>)
        => \A out \in ConverterOuts : Called(out) => out = Ok(<<0>>)

\* Both converters have converted [0] between two different valid bases.
C7_Witness ==
    /\ ValidBases /\ from_base /= to_base /\ digits = <<0>>
    /\ baseline_out = Ok(<<0>>) /\ optimized_out = Ok(<<0>>)

\* C8: for every pair of valid bases, from_base = to_base included, both
\* converters turn the empty sequence into [0].
C8_EmptyToZero ==
    (ValidBases /\ digits = <<>>)
        => \A out \in ConverterOuts : Called(out) => out = Ok(<<0>>)

\* C9: for a valid base b and a canonical d with every digit < b, both
\* converters return d unchanged from convert(d, b, b).
C9_SameBaseIdentity ==
    (ValidInput /\ from_base = to_base /\ IsCanonical(digits))
        => \A out \in ConverterOuts : Called(out) => out = Ok(digits)

\* Both converters have returned a canonical sequence of several digits, not
\* a palindrome, for equal bases.
C9_Witness ==
    /\ ValidInput /\ from_base = to_base /\ IsCanonical(digits)
    /\ Len(digits) > 1 /\ Reverse(digits) /= digits
    /\ baseline_out = Ok(digits) /\ optimized_out = Ok(digits)

\* C10: convert_base_auto has the same outcome as convert_base on every
\* argument triple: the same sequence or the same failure.
C10_AutoIsAlias ==
    Called(auto_out) => auto_out = optimized_out

\* The alias has returned a sequence that is not the reference converter's.
C10_Witness ==
    /\ Called(auto_out) /\ auto_out.kind = "Ok"
    /\ baseline_out.kind = "Ok" /\ auto_out /= baseline_out

\* Callers inside the critical section of get_factorization.
InCritical == {p \in DOMAIN callers : callers[p].pc \in {"lookup", "compute", "release"}}

\* C11: under every interleaving of concurrent get_factorization calls the
\* check-and-insert is atomic: at most one caller is between lock and return,
\* each base's factorization is computed at most once and exactly once when
\* it is in the map, every caller got the record the map holds for its base,
\* and every entry of the map is the factorization of its key.
C11_CacheRaceAtomic ==
    /\ Cardinality(InCritical) <= 1
    /\ \A n \in DOMAIN computations :
          computations[n] = IF n \in DOMAIN cache.map THEN 1 ELSE 0
    /\ \A p \in DOMAIN callers : \A i \in 1..Len(callers[p].results) :
          /\ callers[p].bases[i] \in DOMAIN cache.map
          /\ callers[p].results[i] = cache.map[callers[p].bases[i]]
    /\ \A n \in DOMAIN cache.map : cache.map[n] = prime_factorization(n)

\* Two callers raced on the same uncached base and both have returned: one
\* computed the record, the other got the same record.
C11_Witness ==
    /\ callers /= <<>>
    /\ callers[1].bases[1] = callers[2].bases[1]
    /\ Len(callers[1].results) >= 1 /\ Len(callers[2].results) >= 1
    /\ callers[1].results[1] = callers[2].results[1]
    /\ computations[callers[1].bases[1]] = 1

\* An entry of the map is still there, with the same record, after a step.
EntriesKept ==
    \A n \in DOMAIN cache.map :
        n \in DOMAIN cache'.map /\ cache'.map[n] = cache.map[n]

\* Every key is a base in [2, 65536] that was passed to get_factorization.
KeysWereQueried ==
    /\ DOMAIN cache.map \subseteq queried
    /\ \A n \in queried : ValidBase(n)
    /\ Cardinality(DOMAIN cache.map) <= Cardinality(queried)

\* C12: the cache starts empty; no step of any interleaving of conversions
\* removes or overwrites an entry, so the key set only grows; every key is a
\* base in [2, 65536] that a conversion passed to get_factorization, and the
\* size never exceeds the number of distinct bases queried.
C12_CacheMonotone ==
    /\ cache = CacheNone
    /\ [][EntriesKept]_vars
    /\ []KeysWereQueried

\* The map holds several entries and every caller has both its records: some
\* calls inserted, the others found the entry in place.
C12_Witness ==
    /\ callers /= <<>>
    /\ Cardinality(DOMAIN cache.map) >= 2
    /\ \A p \in DOMAIN callers : callers[p].pc = "done"
    /\ \E n \in DOMAIN cache.map :
          Cardinality({p \in DOMAIN callers :
                          \E i \in 1..2 : callers[p].bases[i] = n}) >= 2

\* C13: for every valid input each converter terminates and returns a digit
\* sequence, whichever strategy runs: its division loop reaches a sequence
\* that is empty or [0] after finitely many passes.
C13_Totality ==
    ValidInput => \A out \in ConverterOuts : Called(out) => out.kind = "Ok"

\* b is 2^k for some k (bases are at most 2^16).
IsPowerOfTwo(b) == \E k \in 0..16 : b = Pow2(k)

\* The input has at most 20 digits and denotes a value below 2^128.
FitsU128 ==
    /\ Len(digits) <= SMALL_DIGIT_CAP
    /\ ~BigGT(digits_to_biguint(digits, from_base), U128_MAX)

\* The strategy the priority order gives the argument triple.
ExpectedStrategy ==
    IF IsPowerOfTwo(from_base) /\ IsPowerOfTwo(to_base) THEN "power_of_two"
    ELSE IF FitsU128 THEN "small_value"
    ELSE IF find_aligned_exponents(CacheNone, from_base, to_base).found THEN "aligned"
    ELSE "general"

\* C15: after validation and shortcuts the result comes from exactly one
\* strategy, chosen in the order power-of-two (iff both bases are powers of
\* two), small-value (if the accumulation fits), aligned (if detection returns
\* exponents), general otherwise; a power-of-two pair of the aligned table
\* never reaches the aligned converter.
C15_StrategyPriority ==
    (ValidInput /\ from_base /= to_base /\ ~is_zero_or_empty(digits)
        /\ Called(optimized_out))
        => strategy = ExpectedStrategy

\* A long input between 2 and 16, a pair of the aligned table, was converted
\* by the power-of-two strategy.
C15_Witness ==
    /\ from_base = 2 /\ to_base = 16 /\ ValidInput
    /\ Len(digits) > SMALL_DIGIT_CAP /\ ~is_zero_or_empty(digits)
    /\ optimized_out.kind = "Ok" /\ strategy = "power_of_two"

\* The private converters (the functions returning a digit sequence).
InnerConverters ==
    {"convert_aligned_bases", "convert_general_optimized_tricks",
     "convert_large_number_chunked"}

\* The digit sequences returned so far for the argument triple.
ReturnedSequences ==
    {out.val : out \in {o \in ConverterOuts : o.kind = "Ok"}}
        \cup (IF inner_fn \in InnerConverters /\ inner_out.kind = "Ok"
              THEN {inner_out.val} ELSE {})

\* C14: for valid input with from_base /= to_base every digit of every
\* returned sequence is in [0, to_base): the result of convert_base whichever
\* strategy it selected, of the reference converter, and of the aligned,
\* general and sub-chunked converters called directly.
C14_OutputDigitRange ==
    (ValidInput /\ from_base /= to_base)
        => \A v \in ReturnedSequences : \A i \in 1..Len(v) : v[i] >= 0 /\ v[i] < to_base

\* The sub-chunked variant has returned several digits, the largest digit of
\* to_base among them, for an input of more than one chunk.
C14_Witness ==
    /\ ValidInput /\ Len(digits) > CHUNK_SIZE
    /\ inner_fn = "convert_large_number_chunked" /\ inner_out.kind = "Ok"
    /\ Len(inner_out.val) > 1
    /\ \E i \in 1..Len(inner_out.val) : inner_out.val[i] = to_base - 1

\* C16: for every valid input handed to the sub-chunked variant (to_base <
\* from_base), a pass visits the digits of the current sequence in the
\* reference converter's most-significant-to-least-significant order and the
\* variant returns the reference converter's sequence. (The 2000-digit
\* threshold is the caller's; the variant is applied here to every input.)
C16_ChunkedEqualsReference ==
    inner_fn = "convert_large_number_chunked"
        => /\ chunked_visit(digits) = Reverse(digits)
           /\ inner_out = baseline_out

\* C17: for every valid input with from_base /= to_base the blocked long
\* division returns the reference converter's sequence, whichever block shape
\* its passes use (16-blocks, 4-blocks, plain loop, single-digit exit).
C17_BlockedEqualsReference ==
    inner_fn = "convert_general_optimized_tricks" => inner_out = baseline_out

\* from^a = to^b for exponents within the search bound.
PowersMeet(from, to, a, b) == BigPow(from, a) = BigPow(to, b)

\* (a, b) is the smallest positive pair with from^a = to^b.
SmallestAlignment(from, to, a, b) ==
    /\ PowersMeet(from, to, a, b)
    /\ \A a2 \in 1..a, b2 \in 1..b :
          PowersMeet(from, to, a2, b2) => (a2 = a /\ b2 = b)

\* C18: whenever find_aligned_exponents returns (a, b), from the table or
\* from the search, for either order of a table pair, from_base^a =
\* to_base^b and (a, b) is the smallest positive such pair.
C18_AlignedSoundMinimal ==
    (inner_fn = "find_aligned_exponents" /\ inner_out.kind = "Ok")
        => SmallestAlignment(from_base, to_base, inner_out.val[1], inner_out.val[2])

\* The pairs of the table of common relations, in both orders.
TablePairs ==
    {<<4, 16>>, <<16, 4>>, <<8, 64>>, <<64, 8>>, <<27, 3>>, <<3, 27>>,
     <<16, 2>>, <<2, 16>>, <<32, 2>>, <<2, 32>>}

\* The primes dividing n.
PrimeSet(n) == {prime_factorization(n)[i][1] : i \in 1..Len(prime_factorization(n))}

\* Some pair a, b in [1, MAX_EXPONENT] has from^a = to^b.
AlignedWithinBound(from, to) ==
    \E a \in 1..MAX_EXPONENT, b \in 1..MAX_EXPONENT : PowersMeet(from, to, a, b)

\* C19: for distinct valid bases outside the table, detection returns None
\* only if the prime sets differ or no pair a, b in [1, 10] has from^a =
\* to^b; with the same prime set and such a pair it returns that pair.
C19_AlignedComplete ==
    (inner_fn = "find_aligned_exponents" /\ <<from_base, to_base>> \notin TablePairs)
        => /\ inner_out.kind = "None"
                => \/ PrimeSet(from_base) /= PrimeSet(to_base)
                   \/ ~AlignedWithinBound(from_base, to_base)
           /\ (PrimeSet(from_base) = PrimeSet(to_base)
                  /\ AlignedWithinBound(from_base, to_base))
                => /\ inner_out.kind = "Ok"
                   /\ PowersMeet(from_base, to_base, inner_out.val[1], inner_out.val[2])

\* C20: called with a, b >= 1 and from_base^a = to_base^b on a valid digit
\* sequence of any length (the last chunk possibly shorter),
\* convert_aligned_bases returns the reference converter's sequence.
C20_AlignedExact ==
    inner_fn = "convert_aligned_bases" => inner_out = baseline_out

\* The chunks of an aligned conversion of `digits` with exponents a, b: each
\* emits exactly b digits and leaves nothing of its value, and the untrimmed
\* output has ceil(n / a) * b digits.
ChunksFillBlocks(a, b) ==
    \E powers \in {from_powers_upto(from_base, a)} :
        /\ \A k \in 0..((Len(digits) - 1) \div a) :
              \E v \in {chunk_value(digits, k * a + 1,
                                    Min((k + 1) * a, Len(digits)), powers)} :
                  /\ Len(emit_fixed(v, to_base, b, <<>>)) = b
                  /\ chunk_remaining(v, to_base, b) = BigFromInt(0)
        /\ Len(aligned_chunks(digits, to_base, a, b, powers))
              = ((Len(digits) + a - 1) \div a) * b

\* C21: in every aligned conversion reached through convert_base each input
\* chunk emits exactly b output digits, the chunk's value is zero after those
\* b digits, and the output before trimming has ceil(n / a) * b digits.
C21_FixedWidthChunks ==
    strategy = "aligned"
        => \E al \in {find_aligned_exponents(cache, from_base, to_base)} :
              al.found /\ ChunksFillBlocks(al.a, al.b)

\* An aligned conversion from base 27 with a digit that needs all three
\* base-3 digits of its block.
C21_Witness ==
    /\ strategy = "aligned"
    /\ from_base = 27
    /\ \E i \in 1..Len(digits) : digits[i] = 26

\* C22: for every pair of distinct power-of-two bases in [2, 65536] and
\* every valid digit sequence, convert_power_of_two_optimized returns the
\* reference converter's sequence, the digit made of the residual bits
\* included.
C22_PowerOfTwoExact ==
    (inner_fn = "convert_power_of_two_optimized" /\ Called(baseline_out))
        => inner_out = baseline_out

\* A re-basing to a wider digit whose last output digit comes from residual
\* bits.
C22_Witness ==
    /\ inner_fn = "convert_power_of_two_optimized"
    /\ Called(baseline_out)
    /\ to_base > from_base
    /\ (Len(digits) * log2_of_power_of_two(from_base)) % log2_of_power_of_two(to_base) /= 0
    /\ digits[Len(digits)] /= 0
    /\ Len(digits) > 1

\* The number of bits of x.
RECURSIVE BitLength(_)
BitLength(x) == IF x = 0 THEN 0 ELSE 1 + BitLength(x \div 2)

\* The accumulator st between two digits, and the OR of the next digit.
AccumulatorInRange(st, i, to_shift) ==
    /\ st.buffer_bits < to_shift
    /\ st.buffer < Pow2(st.buffer_bits)
    /\ i < Len(digits)
          => BitLength(BitOr(st.buffer, digits[i + 1] * Pow2(st.buffer_bits))) <= 31
    /\ (i = Len(digits) /\ st.buffer_bits > 0) => st.buffer < to_base

\* C30: in convert_power_of_two_optimized, after each input digit the count
\* of valid bits is below to_shift and the accumulator is below
\* 2^(bit count); when a digit is ORed in the accumulator needs at most 31
\* bits; the residual digit pushed at the end is below to_base.
C30_BitAccumulator ==
    inner_fn = "convert_power_of_two_optimized"
        => \E shift \in {<<log2_of_power_of_two(from_base),
                           log2_of_power_of_two(to_base)>>} :
              \A i \in 0..Len(digits) :
                  AccumulatorInRange(pow2_prefix(digits, i, shift[1], shift[2]),
                                     i, shift[2])

\* The widest digits re-based to 15-bit digits, with residual bits at the end.
C30_Witness ==
    /\ inner_fn = "convert_power_of_two_optimized"
    /\ from_base = 65536
    /\ to_base = 32768
    /\ Len(digits) > 1
    /\ digits[2] = 65535
    /\ pow2_prefix(digits, Len(digits), 16, 15).buffer_bits > 0

\* The exact integer value of the input.
ExactValue == digits_to_biguint(digits, from_base)

\* C23: try_convert_to_u128 returns a value if and only if the input has at
\* most 20 digits and its exact value is below 2^128; the value returned is
\* the exact value; on every other input convert_base abandons the path and
\* a later strategy (aligned or general) produces the result.
C23_SmallValueExact ==
    (Called(optimized_out) /\ ~(IsPowerOfTwo(from_base) /\ IsPowerOfTwo(to_base)))
        => \E num \in {try_convert_to_u128(digits, from_base)} :
              /\ num.some <=> /\ Len(digits) <= SMALL_DIGIT_CAP
                              /\ ~BigGT(ExactValue, U128_MAX)
              /\ num.some => num.num = ExactValue /\ strategy = "small_value"
              /\ ~num.some => strategy \in {"aligned", "general"}

\* An input of at most 20 digits whose value does not fit in 128 bits.
C23_Witness ==
    /\ Called(optimized_out)
    /\ Len(digits) <= SMALL_DIGIT_CAP
    /\ BigGT(ExactValue, U128_MAX)
    /\ strategy = "general"

\* p is prime (for p below 257^2: trial division by 2..256).
IsPrime(p) == p >= 2 /\ \A q \in 2..256 : q * q <= p => p % q /= 0

RECURSIVE IntPow(_, _)
IntPow(x, e) == IF e = 0 THEN 1 ELSE x * IntPow(x, e - 1)

\* The product of prime^exponent over the pairs of f.
RECURSIVE FactorsProduct(_)
FactorsProduct(f) ==
    IF f = <<>> THEN 1 ELSE IntPow(f[1][1], f[1][2]) * FactorsProduct(Tail(f))

\* C24: for every n in [2, 65536], prime_factorization(n) returns pairs
\* whose primes are prime and strictly increasing, whose exponents are at
\* least 1 and whose product of prime^exponent is n.
C24_FactorizationRecord ==
    inner_fn = "prime_factorization"
        => \E f \in {inner_out.val} :
              /\ \A i \in 1..Len(f) : IsPrime(f[i][1]) /\ f[i][2] >= 1
              /\ \A i \in 1..(Len(f) - 1) : f[i][1] < f[i + 1][1]
              /\ FactorsProduct(f) = from_base

\* A base with at least three primes, one of them repeated.
C24_Witness ==
    /\ inner_fn = "prime_factorization"
    /\ Len(inner_out.val) >= 3
    /\ \E i \in 1..Len(inner_out.val) : inner_out.val[i][2] >= 2

\* Caller p has returned from both of its get_factorization calls.
Returned(p) == callers[p].pc = "done" /\ Len(callers[p].results) = Len(callers[p].bases)

\* C25: with concurrent callers of get_factorization under fair scheduling,
\* every call eventually acquires the lock, returns a record and releases the
\* lock: a waiting caller eventually holds the lock, every caller eventually
\* has all its records, the lock ends up free, and it is never held by a
\* caller that is outside a call.
C25_CacheLiveness ==
    /\ \A p \in 1..NumCallers : (callers[p].pc = "want") ~> (lock = p)
    /\ \A p \in 1..NumCallers : <>[]Returned(p)
    /\ <>[](lock = 0)
    /\ [](\A p \in 1..NumCallers : callers[p].pc \in {"want", "done"} => lock /= p)

\* Every caller has returned, after at least one call found the record
\* another caller had inserted.
C25_Witness ==
    /\ \A p \in 1..NumCallers : Returned(p)
    /\ lock = 0
    /\ \E n \in CacheBases : n \in queried /\ computations[n] = 1
    /\ \E p \in 1..NumCallers, q \in 1..NumCallers :
          p /= q /\ callers[p].bases[1] = callers[q].bases[1]

\* acc * base^n + sum of seq[i] * base^(i-1) for the n digits of seq, taken
\* from the most significant digit down.
ValueOnTop(seq, base, acc) ==
    While(LAMBDA s : s.i >= 1,
          LAMBDA s : [i |-> s.i - 1, acc |-> BigMulAdd(s.acc, base, seq[s.i])],
          [i |-> Len(seq), acc |-> acc]).acc

\* value(current in from_base) * to_base^k + sum of result[i] * to_base^i,
\* k the number of passes made (and of digits in result).
LoopValue ==
    ValueOnTop(loop.result, to_base, ValueOnTop(loop.current, from_base, <<>>))

\* The part of the loop invariant that holds from the loop's entry on.
ValuePreserved ==
    /\ Len(loop.result) = loop.passes
    /\ LoopValue = ValueOnTop(digits, from_base, <<>>)
    /\ loop.passes = 0 => LoopValue = ExactValue
    /\ \A i \in 1..Len(loop.current) : loop.current[i] < from_base
    /\ \A i \in 1..Len(loop.result) : loop.result[i] < to_base

NoLeadingZero == loop.current = <<>> \/ loop.current[Len(loop.current)] /= 0

\* C26, as stated: in the reference converter after k passes (k >= 0) the
\* value invariant holds, every digit of current is below from_base, current
\* has no most-significant zero digit and every pushed carry is below
\* to_base.
C26_LoopInvariantFromEntry ==
    inner_fn = "baseline::convert_base" => ValuePreserved /\ NoLeadingZero

\* C26, amended: the value invariant and the digit bounds hold after every
\* number of passes k >= 0; current has no most-significant zero digit after
\* k >= 1 passes (before the first pass current is the input, which may end
\* in zero digits).
C26_ReferenceLoopInvariant ==
    inner_fn = "baseline::convert_base"
        => /\ ValuePreserved
           /\ loop.passes >= 1 => NoLeadingZero

\* The reference loop after several passes over an input with a
\* most-significant zero digit, with digits still to divide.
C26_Witness ==
    /\ inner_fn = "baseline::convert_base"
    /\ digits[Len(digits)] = 0
    /\ loop.passes >= 2
    /\ Len(loop.current) > 1

\* The order in which the next pass of the loop being stepped visits the
\* digits of current.
PassVisit ==
    IF inner_fn = "baseline::convert_base" THEN Reverse(loop.current)
    ELSE IF inner_fn = "convert_general_optimized_tricks" THEN general_visit(loop.current)
    ELSE chunked_visit(loop.current)

\* A pass is about to run.
PassPending == inner_fn /= "none" /\ ~is_zero_or_empty(loop.current)

\* C29: in every division pass of the reference, blocked and sub-chunked
\* converters over valid input, carry < to_base holds before each step,
\* value = carry * from_base + digit is at most from_base * to_base - 1 and
\* below 65536 * 65536 (so below 2^64), and every quotient digit is below
\* from_base.
C29_NoOverflowInDivision ==
    PassPending
        => \E steps \in {pass_steps(PassVisit, from_base, to_base)} :
              /\ Len(steps) = Len(loop.current)
              /\ \A i \in 1..Len(steps) :
                    /\ steps[i].carry < to_base
                    /\ steps[i].value = steps[i].carry * from_base + PassVisit[i]
                    /\ steps[i].value <= from_base * to_base - 1
                    /\ steps[i].value \div MAX_BASE < MAX_BASE
                    /\ steps[i].quotient < from_base

\* A pass of the blocked converter over 4-blocks in the largest base, with a
\* step whose value needs 31 bits.
C29_Witness ==
    /\ PassPending
    /\ inner_fn = "convert_general_optimized_tricks"
    /\ from_base = MAX_BASE
    /\ Len(loop.current) >= UNROLL_4
    /\ \E steps \in {pass_steps(PassVisit, from_base, to_base)} :
          \E i \in 1..Len(steps) : steps[i].value >= Pow2(30)

\* The cache states a conversion of from_base to to_base can meet: the cache
\* before its first use, and every map other conversions have filled with
\* any of the two keys this one asks for.
CacheStates ==
    {CacheNone}
        \cup {[some |-> TRUE, map |-> [n \in K |-> prime_factorization(n)]] :
                 K \in SUBSET {from_base, to_base}}

\* C27: get_factorization returns the same record for a cached base as for
\* one it computes, so detection returns the same from every cache state
\* (whichever of the two keys other conversions have inserted, before or
\* between this conversion's two lookups), and convert_base run again over
\* the cache its first run left behind returns what the first run returned.
C27_CacheIndependence ==
    inner_fn = "find_aligned_exponents"
        => /\ \A c \in CacheStates :
                 /\ \A n \in {from_base, to_base} :
                       get_factorization(c, n).result = prime_factorization(n)
                 /\ AlignedOutcome(find_aligned_exponents(c, from_base, to_base))
                        = inner_out
           /\ cache \in CacheStates
           /\ convert_base(cache, digits, from_base, to_base).out = optimized_out

\* Detection called on a warm cache for two bases with the same prime set,
\* after a conversion that consulted the cache.
C27_Witness ==
    /\ inner_fn = "find_aligned_exponents"
    /\ strategy = "general"
    /\ {from_base, to_base} \subseteq DOMAIN cache.map
    /\ from_base = 9
    /\ to_base = 3

\* The call gets past validation, the shortcuts, the power-of-two and
\* small-value strategies and the table of common aligned pairs.
ConsultsFactorization ==
    /\ ValidInput
    /\ from_base /= to_base
    /\ ~is_zero_or_empty(digits)
    /\ ~(IsPowerOfTwo(from_base) /\ IsPowerOfTwo(to_base))
    /\ ~FitsU128
    /\ <<from_base, to_base>> \notin TablePairs

\* A step in which a convert call returns.
ConvertReturns == optimized_out' /= optimized_out \/ auto_out' /= auto_out

\* C28: a convert call that fails validation, returns through a shortcut, is
\* handled by the power-of-two converter, succeeds on the small-value path or
\* hits the table of aligned pairs leaves the cache unchanged; any other call
\* adds at most the keys from_base and to_base and changes no entry.
C28_CacheFrame ==
    [][ConvertReturns
         => /\ ~ConsultsFactorization => cache' = cache
            /\ DOMAIN cache'.map \subseteq DOMAIN cache.map \cup {from_base, to_base}
            /\ \A n \in DOMAIN cache.map : cache'.map[n] = cache.map[n]]_vars

\* A second convert call has returned over the cache the first one filled
\* with both keys.
C28_Witness ==
    /\ Called(auto_out)
    /\ strategy = "general"
    /\ DOMAIN cache.map = {from_base, to_base}

====
